---------------------------- MODULE Spec2Model ----------------------------
(***************************************************************************)
(* Model of main.py: the review store (name normalization, corpus load,    *)
(* lookup), the scorer, and the three-stage chat pipeline of main().       *)
(*                                                                         *)
(* A Python str is a sequence of one-character strings.  A dict is a       *)
(* function whose DOMAIN is its key set.                                   *)
(***************************************************************************)
EXTENDS Integers, Sequences, FiniteSets, TLC

VARIABLES
    \* ---- review store (module level, lines 15-45)
    corpus,                   \* the lines of ./restaurant-data.txt
    pc,                       \* "loading" | "ready" | "failed"
    lineNo,                   \* index of the next line of the for loop
    reviews_hash,             \* the local dict of fetch_restaurant_reviews_hash
    restaurant_reviews_hash,  \* the module global: Unbound or Bound(dict)
    loadError,                \* exception raised by the load, "none" if none
    fetchCall,                \* last fetch_restaurant_data call
    \* ---- scorer (lines 48-72)
    scoreCall,                \* last calculate_overall_score call
    \* ---- normalization of a pair of related names (lines 8-12)
    nameA, nameB, keyA, keyB, keyAA, npc,
    \* ---- pipeline of main() (lines 151-173)
    pstate, chatNo, turn, chatOpen, lastMsg, opening, chat_results, history

storeVars == <<corpus, pc, lineNo, reviews_hash, restaurant_reviews_hash,
               loadError, fetchCall>>
scoreVars == <<scoreCall>>
normVars  == <<nameA, nameB, keyA, keyB, keyAA, npc>>
pipeVars  == <<pstate, chatNo, turn, chatOpen, lastMsg, opening,
               chat_results, history>>
vars == <<storeVars, scoreVars, normVars, pipeVars>>

-----------------------------------------------------------------------------
(* Bounds of the model *)

MaxLines == 2      \* lines in the corpus file
MaxNameLen == 3    \* characters in a name handed to the normalizer
MaxScores == 2     \* elements in each score list

-----------------------------------------------------------------------------
(* Characters *)

CapSigma   == "U+03A3"   \* GREEK CAPITAL LETTER SIGMA
SmallSigma == "U+03C3"   \* GREEK SMALL LETTER SIGMA
FinalSigma == "U+03C2"   \* GREEK SMALL LETTER FINAL SIGMA

AsciiUpper == {"A", "B"}
AsciiLower == {"a", "b", "x", "y"}
AsciiDigit == {"1"}
AsciiPunct == {"'", " ", "."}
AsciiChars == AsciiUpper \cup AsciiLower \cup AsciiDigit \cup AsciiPunct

\* c.isalnum() of line 11
isalnum(c) == c \in AsciiUpper \cup AsciiLower \cup AsciiDigit
                     \cup {CapSigma, SmallSigma, FinalSigma}

\* Unicode property Cased: the character is a letter with a case
Cased(c) == c \in AsciiUpper \cup AsciiLower
                  \cup {CapSigma, SmallSigma, FinalSigma}

\* Unicode property Case_Ignorable: skipped when str.lower() looks for the
\* cased letters around a capital sigma (apostrophe and full stop are)
CaseIgnorable(c) == c \in {"'", "."}

\* the lowercase mapping of one character, out of context
LowerChar(c) ==
    CASE c = "A" -> "a"
      [] c = "B" -> "b"
      [] c = CapSigma -> SmallSigma
      [] OTHER -> c

\* str.lower() maps a capital sigma to the final sigma when a cased letter
\* precedes it and none follows it, case-ignorable characters skipped
FinalSigmaAt(s, i) ==
    /\ \E j \in 1..(i - 1) :
          /\ Cased(s[j])
          /\ \A k \in (j + 1)..(i - 1) : CaseIgnorable(s[k])
    /\ ~ \E j \in (i + 1)..Len(s) :
          /\ Cased(s[j])
          /\ \A k \in (i + 1)..(j - 1) : CaseIgnorable(s[k])

\* restaurant_name.lower() of line 10
lower(s) ==
    [i \in 1..Len(s) |->
        IF s[i] = CapSigma /\ FinalSigmaAt(s, i) THEN FinalSigma
        ELSE LowerChar(s[i])]

\* "".join(c for c in normalized if c.isalnum()) of line 11
join_alnum(s) == SelectSeq(s, isalnum)

\* a normalizer that forgets to lowercase
normalize_no_lower(restaurant_name) == join_alnum(restaurant_name)

normalize_restaurant_name(restaurant_name) ==
    join_alnum(lower(restaurant_name))

-----------------------------------------------------------------------------
(* Sequences and dicts *)

RECURSIVE SeqsUpTo(_, _)
SeqsUpTo(S, n) ==
    IF n = 0 THEN {<<>>}
    ELSE LET shorter == SeqsUpTo(S, n - 1)
         IN  shorter \cup {Append(s, c) : s \in shorter, c \in S}

EmptyDict == [k \in {} |-> <<>>]

Unbound  == <<>>
Bound(d) == <<d>>


-----------------------------------------------------------------------------
(* Review store *)

Delim == <<".", " ">>

\* names, reviews and whole lines the corpus file is made of
CorpusNames   == { <<"A", "b">>, <<"a", "'", "B">>, <<"x">>, <<"a", ".", "b">>,
                   <<>> }
CorpusReviews == { <<"y">>, <<"y", ".", " ", "x">> }
WellFormedLines == { n \o Delim \o r : n \in CorpusNames, r \in CorpusReviews }
MalformedLines  == { <<>>, <<"A", "b">>, <<"A", "b", ".">> }
CorpusLines == WellFormedLines \cup MalformedLines

\* names the tools are called with
FetchNames == { <<"A", "b">>, <<"A", "B">>, <<"a", "'", "b">>, <<"a", "b">>,
                <<"x">>, <<"y">>, <<>> }

\* positions at which sep occurs in s
Occurrences(s, sep) ==
    { i \in 1..(Len(s) - Len(sep) + 1) : SubSeq(s, i, i + Len(sep) - 1) = sep }

Min(S) == CHOOSE i \in S : \A j \in S : i <= j
Max(S) == CHOOSE i \in S : \A j \in S : i >= j

\* a split at the last occurrence of the separator: line.rsplit(". ", 1)
rsplit1(s, sep) ==
    IF Occurrences(s, sep) = {} THEN << s >>
    ELSE LET i == Max(Occurrences(s, sep))
         IN  << SubSeq(s, 1, i - 1), SubSeq(s, i + Len(sep), Len(s)) >>

\* line.split(". ", 1): one split at the first occurrence, or the line alone
split1(s, sep) ==
    IF Occurrences(s, sep) = {} THEN << s >>
    ELSE LET i == Min(Occurrences(s, sep))
         IN  << SubSeq(s, 1, i - 1), SubSeq(s, i + Len(sep), Len(s)) >>

\* a loop body that takes a line without delimiter as a name with no review
\* (line.partition(". ") in place of the unpacked split)
LoadLineLenient ==
    /\ pc = "loading"
    /\ lineNo <= Len(corpus)
    /\ LET parts == split1(corpus[lineNo], Delim)
           restaurant_name == normalize_restaurant_name(parts[1])
           review == IF Len(parts) = 2 THEN parts[2] ELSE <<>>
           seen == IF restaurant_name \in DOMAIN reviews_hash
                   THEN reviews_hash
                   ELSE reviews_hash @@ (restaurant_name :> <<>>)
       IN  reviews_hash' =
               [seen EXCEPT ![restaurant_name] = Append(@, review)]
    /\ lineNo' = lineNo + 1
    /\ UNCHANGED <<corpus, pc, restaurant_reviews_hash, loadError, fetchCall>>
    /\ UNCHANGED <<scoreVars, normVars, pipeVars>>

\* one iteration of the for loop of fetch_restaurant_reviews_hash; unpacking
\* a split that found no delimiter raises ValueError, which ends the import
LoadLine ==
    /\ pc = "loading"
    /\ lineNo <= Len(corpus)
    /\ LET parts == split1(corpus[lineNo], Delim)
       IN  IF Len(parts) # 2
           THEN /\ pc' = "failed"
                /\ loadError' = "ValueError"
                /\ reviews_hash' = EmptyDict
                /\ UNCHANGED lineNo
           ELSE LET restaurant_name == normalize_restaurant_name(parts[1])
                    review == parts[2]
                    seen == IF restaurant_name \in DOMAIN reviews_hash
                            THEN reviews_hash
                            ELSE reviews_hash @@ (restaurant_name :> <<>>)
                IN  /\ reviews_hash' =
                         [seen EXCEPT ![restaurant_name] = Append(@, review)]
                    /\ lineNo' = lineNo + 1
                    /\ UNCHANGED <<pc, loadError>>
    /\ UNCHANGED <<corpus, restaurant_reviews_hash, fetchCall>>
    /\ UNCHANGED <<scoreVars, normVars, pipeVars>>

\* return reviews_hash, and the assignment of line 32
LoadReturn ==
    /\ pc = "loading"
    /\ lineNo > Len(corpus)
    /\ restaurant_reviews_hash' = Bound(reviews_hash)
    /\ pc' = "ready"
    /\ UNCHANGED <<corpus, lineNo, reviews_hash, loadError, fetchCall>>
    /\ UNCHANGED <<scoreVars, normVars, pipeVars>>

NoCall == [called |-> FALSE, arg |-> <<>>, raised |-> "none", ret |-> EmptyDict]

\* a lookup that indexes the dict and echoes the normalized key
fetch_restaurant_data_indexed(index, restaurant_name) ==
    LET key == normalize_restaurant_name(restaurant_name)
    IN  IF key \in DOMAIN index
        THEN [raised |-> "none", ret |-> (key :> index[key])]
        ELSE [raised |-> "KeyError", ret |-> EmptyDict]

\* fetch_restaurant_data over the loaded index: dict.get with default []
fetch_restaurant_data(index, restaurant_name) ==
    LET key == normalize_restaurant_name(restaurant_name)
        reviews == IF key \in DOMAIN index THEN index[key] ELSE <<>>
    IN  [raised |-> "none", ret |-> (restaurant_name :> reviews)]

\* a lookup that inserts the default on a miss (setdefault in place of get)
IndexAfterFetchSetdefault(index, restaurant_name) ==
    LET key == normalize_restaurant_name(restaurant_name)
    IN  IF key \in DOMAIN index THEN index ELSE index @@ (key :> <<>>)

\* the index after a call of fetch_restaurant_data: get() leaves it as it is
IndexAfterFetch(index, restaurant_name) == index

FetchCall(restaurant_name) ==
    /\ pc = "ready"
    /\ LET index == restaurant_reviews_hash[1]
           r == fetch_restaurant_data(index, restaurant_name)
       IN  /\ fetchCall' = [called |-> TRUE, arg |-> restaurant_name,
                            raised |-> r.raised, ret |-> r.ret]
           /\ restaurant_reviews_hash' =
                  Bound(IndexAfterFetch(index, restaurant_name))
    /\ UNCHANGED <<corpus, pc, lineNo, reviews_hash, loadError>>
    /\ UNCHANGED <<scoreVars, normVars, pipeVars>>

-----------------------------------------------------------------------------
(* Scorer.  Floats are fixed-point numbers with six decimals (micro units); *)
(* the string "{:.3f}".format(x) is the integer 1000 * x, rounded (milli).  *)

Radicand == 125          \* math.sqrt(125) of line 69
Scale == 10              \* the factor 10 of line 69
ScoreLow == 1            \* "a list of food scores from 1-5", line 51
ScoreHigh == 5
ScoreValues == ScoreLow..(ScoreHigh + 1)   \* one value outside the domain
ScoreLists == SeqsUpTo(ScoreValues, MaxScores)

\* the integer part of the square root of v
ISqrt(v) == CHOOSE r \in 0..v : r * r <= v /\ (r + 1) * (r + 1) > v

\* the square root by the digit-by-digit method: st = <<root, remainder>>,
\* n more decimal digits to compute
RECURSIVE SqrtDigits(_, _)
SqrtDigits(st, n) ==
    IF n = 0 THEN st[1]
    ELSE LET rem == st[2] * 100
             d == CHOOSE x \in 0..9 :
                     /\ (20 * st[1] + x) * x <= rem
                     /\ x = 9 \/ (20 * st[1] + x + 1) * (x + 1) > rem
         IN  SqrtDigits(<< 10 * st[1] + d, rem - (20 * st[1] + d) * d >>, n - 1)

\* math.sqrt(v) in micro units
sqrt(v) == SqrtDigits(<< ISqrt(v), v - ISqrt(v) * ISqrt(v) >>, 6)

\* num / den rounded to n decimals, as an integer: st = <<quotient, remainder>>
RECURSIVE DivDigits(_, _, _)
DivDigits(st, den, n) ==
    IF n = 0 THEN (IF 2 * st[2] >= den THEN st[1] + 1 ELSE st[1])
    ELSE DivDigits(<< 10 * st[1] + (10 * st[2]) \div den, (10 * st[2]) % den >>,
                   den, n - 1)

\* "{:.3f}".format(num / den) in milli units
format3(num, den) == DivDigits(<< num \div den, num % den >>, den, 3)

\* total_score after the loop of lines 64-67 has run over indices 1..n
RECURSIVE total_score(_, _, _)
total_score(food_scores, customer_service_scores, n) ==
    IF n = 0 THEN 0
    ELSE total_score(food_scores, customer_service_scores, n - 1)
         + sqrt(food_scores[n] * food_scores[n] * customer_service_scores[n])

\* a scorer that normalizes by sqrt(100)
calculate_overall_score_100(restaurant_name, food_scores, customer_service_scores) ==
    LET N == Len(food_scores)
    IN  IF N > Len(customer_service_scores)
        THEN [raised |-> "IndexError", ret |-> EmptyDict]
        ELSE IF N = 0
        THEN [raised |-> "ZeroDivisionError", ret |-> EmptyDict]
        ELSE [raised |-> "none",
              ret |-> (restaurant_name :>
                  format3(total_score(food_scores, customer_service_scores, N)
                              * Scale, N * sqrt(100)))]

\* calculate_overall_score: customer_service_scores[i] raises IndexError when
\* the list is shorter than food_scores, the division of line 69 raises
\* ZeroDivisionError when food_scores is empty
calculate_overall_score(restaurant_name, food_scores, customer_service_scores) ==
    LET N == Len(food_scores)
    IN  IF N > Len(customer_service_scores)
        THEN [raised |-> "IndexError", ret |-> EmptyDict]
        ELSE IF N = 0
        THEN [raised |-> "ZeroDivisionError", ret |-> EmptyDict]
        ELSE [raised |-> "none",
              ret |-> (restaurant_name :>
                  format3(total_score(food_scores, customer_service_scores, N)
                              * Scale, N * sqrt(Radicand)))]

ScoredName == <<"A", "b">>

NoScore == [called |-> FALSE, name |-> <<>>, food |-> <<>>, service |-> <<>>,
            raised |-> "none", ret |-> EmptyDict]

ScoreCall(restaurant_name, food_scores, customer_service_scores) ==
    /\ LET r == calculate_overall_score(restaurant_name, food_scores,
                                        customer_service_scores)
       IN  scoreCall' = [called |-> TRUE, name |-> restaurant_name,
                         food |-> food_scores,
                         service |-> customer_service_scores,
                         raised |-> r.raised, ret |-> r.ret]
    /\ UNCHANGED <<storeVars, normVars, pipeVars>>

-----------------------------------------------------------------------------
(* Two names, the second made from the first by changing the case of       *)
(* letters and by inserting or removing non-alphanumeric characters, and   *)
(* their normalized keys.                                                  *)

NameChars == {"a", "A", "1", "'", " ", CapSigma}
Names == SeqsUpTo(NameChars, MaxNameLen)

\* the other case of a cased character (c.swapcase())
SwapCase(c) ==
    CASE c = "a" -> "A"
      [] c = "A" -> "a"
      [] c = "b" -> "B"
      [] c = "B" -> "b"
      [] c = CapSigma -> SmallSigma
      [] c = SmallSigma -> CapSigma
      [] c = FinalSigma -> CapSigma
      [] OTHER -> c

InsertAt(s, i, c) == SubSeq(s, 1, i) \o <<c>> \o SubSeq(s, i + 1, Len(s))
RemoveAt(s, i) == SubSeq(s, 1, i - 1) \o SubSeq(s, i + 1, Len(s))

InsertNonAlnum(i, c) ==
    /\ npc = "edit"
    /\ Len(nameB) < MaxNameLen
    /\ i \in 0..Len(nameB)
    /\ ~ isalnum(c)
    /\ nameB' = InsertAt(nameB, i, c)
    /\ UNCHANGED <<nameA, keyA, keyB, keyAA, npc>>
    /\ UNCHANGED <<storeVars, scoreVars, pipeVars>>

RemoveNonAlnum(i) ==
    /\ npc = "edit"
    /\ i \in 1..Len(nameB)
    /\ ~ isalnum(nameB[i])
    /\ nameB' = RemoveAt(nameB, i)
    /\ UNCHANGED <<nameA, keyA, keyB, keyAA, npc>>
    /\ UNCHANGED <<storeVars, scoreVars, pipeVars>>

ChangeCase(i) ==
    /\ npc = "edit"
    /\ i \in 1..Len(nameB)
    /\ Cased(nameB[i])
    /\ nameB' = [nameB EXCEPT ![i] = SwapCase(@)]
    /\ UNCHANGED <<nameA, keyA, keyB, keyAA, npc>>
    /\ UNCHANGED <<storeVars, scoreVars, pipeVars>>

\* normalize_restaurant_name applied to both names
Normalize ==
    /\ npc = "edit"
    /\ keyA' = normalize_restaurant_name(nameA)
    /\ keyB' = normalize_restaurant_name(nameB)
    /\ npc' = "normalized"
    /\ UNCHANGED <<nameA, nameB, keyAA>>
    /\ UNCHANGED <<storeVars, scoreVars, pipeVars>>

\* normalize_restaurant_name applied to its own result
NormalizeAgain ==
    /\ npc = "normalized"
    /\ keyAA' = normalize_restaurant_name(keyA)
    /\ npc' = "renormalized"
    /\ UNCHANGED <<nameA, nameB, keyA, keyB>>
    /\ UNCHANGED <<storeVars, scoreVars, pipeVars>>

-----------------------------------------------------------------------------
(* The pipeline of main(): entrypoint_agent.initiate_chats over a queue of  *)
(* three chats.  Message texts written by the language models are opaque.  *)

\* the list handed to initiate_chats, lines 152-171, in another order
ChatQueueSwapped ==
    << [recipient |-> "review_analysis_agent", message |-> "Here are the reviews",
        max_turns |-> 2, summary_method |-> "last_msg"],
       [recipient |-> "data_fetch_agent", message |-> "Query: user_query",
        max_turns |-> 2, summary_method |-> "last_msg"],
       [recipient |-> "scoring_agent", message |-> "Here are the scores",
        max_turns |-> 2, summary_method |-> "last_msg"] >>

\* the list handed to initiate_chats with a turn budget of three
ChatQueueThreeTurns ==
    << [recipient |-> "data_fetch_agent", message |-> "Query: user_query",
        max_turns |-> 3, summary_method |-> "last_msg"],
       [recipient |-> "review_analysis_agent", message |-> "Here are the reviews",
        max_turns |-> 3, summary_method |-> "last_msg"],
       [recipient |-> "scoring_agent", message |-> "Here are the scores",
        max_turns |-> 3, summary_method |-> "last_msg"] >>

\* the list handed to initiate_chats, lines 152-171
ChatQueue ==
    << [recipient |-> "data_fetch_agent", message |-> "Query: user_query",
        max_turns |-> 2, summary_method |-> "last_msg"],
       [recipient |-> "review_analysis_agent", message |-> "Here are the reviews",
        max_turns |-> 2, summary_method |-> "last_msg"],
       [recipient |-> "scoring_agent", message |-> "Here are the scores",
        max_turns |-> 2, summary_method |-> "last_msg"] >>

\* the coordinator state in which a recipient's chat runs
StageOf(recipient) ==
    CASE recipient = "data_fetch_agent" -> "FETCHING"
      [] recipient = "review_analysis_agent" -> "ANALYZING"
      [] recipient = "scoring_agent" -> "SCORING"

\* what a recipient may answer: a well-formed handoff, a suggested tool call,
\* or text that is neither
ReplyTexts == {"handoff", "tool_call", "malformed"}

\* what the entrypoint agent sends on a later turn: the result of the
\* function it executed, the error text of a function that raised, or a
\* generated reply
FollowUps(reply) ==
    IF reply = "tool_call" THEN {"tool_result", "tool_error"}
    ELSE {"generated_reply"}

\* summary_method "last_msg": the content of the last message of the exchange
summary_last_msg(chat_history) == chat_history[Len(chat_history)]

\* the entrypoint agent opens the next chat of the queue with its message
StartChat ==
    /\ pstate \notin {"DONE"}
    /\ chatOpen = "no"
    /\ chatNo < Len(ChatQueue)
    /\ chatNo' = chatNo + 1
    /\ pstate' = StageOf(ChatQueue[chatNo + 1].recipient)
    /\ opening' = ChatQueue[chatNo + 1].message
    /\ history' = << ChatQueue[chatNo + 1].message >>
    /\ lastMsg' = ChatQueue[chatNo + 1].message
    /\ turn' = 1
    /\ chatOpen' = "sent"
    /\ UNCHANGED chat_results
    /\ UNCHANGED <<storeVars, scoreVars, normVars>>

\* the recipient answers the message it was sent
CollaboratorReply(text) ==
    /\ chatOpen = "sent"
    /\ history' = Append(history, text)
    /\ lastMsg' = text
    /\ chatOpen' = "replied"
    /\ UNCHANGED <<pstate, chatNo, turn, opening, chat_results>>
    /\ UNCHANGED <<storeVars, scoreVars, normVars>>

\* a further turn, while the turn budget lasts
NextTurn(text) ==
    /\ chatOpen = "replied"
    /\ turn < ChatQueue[chatNo].max_turns
    /\ text \in FollowUps(lastMsg)
    /\ history' = Append(history, text)
    /\ lastMsg' = text
    /\ turn' = turn + 1
    /\ chatOpen' = "sent"
    /\ UNCHANGED <<pstate, chatNo, opening, chat_results>>
    /\ UNCHANGED <<storeVars, scoreVars, normVars>>

\* the exchange ends: the turn budget is used up, or the entrypoint agent has
\* no further message; the chat's result is recorded with its summary
EndChat ==
    /\ chatOpen = "replied"
    /\ \/ turn = ChatQueue[chatNo].max_turns
       \/ lastMsg # "tool_call"
    /\ chat_results' = Append(chat_results,
           [recipient |-> ChatQueue[chatNo].recipient,
            chat_history |-> history,
            turns |-> turn,
            summary |-> summary_last_msg(history)])
    /\ chatOpen' = "no"
    /\ UNCHANGED <<pstate, chatNo, turn, opening, lastMsg, history>>
    /\ UNCHANGED <<storeVars, scoreVars, normVars>>

\* return result, line 173
Return ==
    /\ pstate # "DONE"
    /\ chatOpen = "no"
    /\ chatNo = Len(ChatQueue)
    /\ pstate' = "DONE"
    /\ UNCHANGED <<chatNo, turn, chatOpen, lastMsg, opening, chat_results,
                   history>>
    /\ UNCHANGED <<storeVars, scoreVars, normVars>>

-----------------------------------------------------------------------------
(* Specifications *)

StoreIdle ==
    /\ corpus = <<>>
    /\ pc = "idle"
    /\ lineNo = 1
    /\ reviews_hash = EmptyDict
    /\ restaurant_reviews_hash = Unbound
    /\ loadError = "none"
    /\ fetchCall = NoCall

ScoreIdle == scoreCall = NoScore

NormIdle ==
    /\ nameA = <<>>
    /\ nameB = <<>>
    /\ keyA = <<>>
    /\ keyB = <<>>
    /\ keyAA = <<>>
    /\ npc = "idle"

PipeIdle ==
    /\ pstate = "idle"
    /\ chatNo = 0
    /\ turn = 0
    /\ chatOpen = "no"
    /\ lastMsg = ""
    /\ opening = ""
    /\ chat_results = <<>>
    /\ history = <<>>

\* the program: the module is imported (the corpus is loaded), then the
\* registered functions are called
Init ==
    /\ corpus \in SeqsUpTo(CorpusLines, MaxLines)
    /\ pc = "loading"
    /\ lineNo = 1
    /\ reviews_hash = EmptyDict
    /\ restaurant_reviews_hash = Unbound
    /\ loadError = "none"
    /\ fetchCall = NoCall
    /\ ScoreIdle /\ NormIdle /\ PipeIdle

\* score lists the scorer is called with once the store is loaded
SampleScoreLists == { <<>>, <<5>> }

Next ==
    \/ LoadLine
    \/ LoadReturn
    \/ \E name \in FetchNames : FetchCall(name)
    \/ \E f \in SampleScoreLists, s \in SampleScoreLists :
          pc = "ready" /\ ScoreCall(ScoredName, f, s)

Spec == Init /\ [][Next]_vars

\* the scorer alone: a call with any two short score lists is pending, and
\* is made
ScoreInit ==
    /\ \E f \in ScoreLists, s \in ScoreLists :
          scoreCall = [NoScore EXCEPT !.name = ScoredName, !.food = f,
                                      !.service = s]
    /\ StoreIdle /\ NormIdle /\ PipeIdle

ScoreNext ==
    /\ ~ scoreCall.called
    /\ ScoreCall(scoreCall.name, scoreCall.food, scoreCall.service)

SpecScore == ScoreInit /\ [][ScoreNext]_vars

\* the normalizer alone, over pairs of related names
NormInit ==
    /\ nameA \in Names
    /\ nameB = nameA
    /\ keyA = <<>>
    /\ keyB = <<>>
    /\ keyAA = <<>>
    /\ npc = "edit"
    /\ StoreIdle /\ ScoreIdle /\ PipeIdle

NormNext ==
    \/ \E i \in 0..MaxNameLen, c \in NameChars : InsertNonAlnum(i, c)
    \/ \E i \in 1..MaxNameLen : RemoveNonAlnum(i)
    \/ \E i \in 1..MaxNameLen : ChangeCase(i)
    \/ Normalize
    \/ NormalizeAgain

SpecNorm == NormInit /\ [][NormNext]_vars

\* main(user_query)
PipeInit ==
    /\ pstate = "START"
    /\ chatNo = 0
    /\ turn = 0
    /\ chatOpen = "no"
    /\ lastMsg = ""
    /\ opening = ""
    /\ chat_results = <<>>
    /\ history = <<>>
    /\ StoreIdle /\ ScoreIdle /\ NormIdle

PipeNext ==
    \/ StartChat
    \/ \E text \in ReplyTexts : CollaboratorReply(text)
    \/ \E text \in {"tool_result", "tool_error", "generated_reply"} :
          NextTurn(text)
    \/ EndChat
    \/ Return

SpecPipe == PipeInit /\ [][PipeNext]_vars

\* every call of main is synchronous: a step that can be taken is taken
FairSpecPipe == SpecPipe /\ WF_vars(PipeNext)

-----------------------------------------------------------------------------
(* Properties *)

IndexNow == restaurant_reviews_hash[1]

\* C1: fetch_restaurant_data(name) never fails and returns a mapping with
\* exactly one key, name as it was given (not normalized), whose value is the
\* review list the index holds under normalize(name), or the empty list when
\* the index has no such key.
C1_FetchEchoesRawName ==
    fetchCall.called =>
        /\ fetchCall.raised = "none"
        /\ DOMAIN fetchCall.ret = {fetchCall.arg}
        /\ LET key == normalize_restaurant_name(fetchCall.arg)
           IN  fetchCall.ret[fetchCall.arg] =
                   IF key \in DOMAIN IndexNow THEN IndexNow[key] ELSE <<>>

\* a hit under a name that is not its own key, after a load of two lines
C1_Witness ==
    /\ fetchCall.called
    /\ fetchCall.arg # normalize_restaurant_name(fetchCall.arg)
    /\ Len(fetchCall.ret[fetchCall.arg]) = 2

\* C2 (as claimed): a call with lists of different lengths, or with an empty
\* food list, raises and returns no score.
C2_MismatchedOrEmptyRaises ==
    ( /\ scoreCall.called
      /\ \/ Len(scoreCall.food) # Len(scoreCall.service)
         \/ Len(scoreCall.food) = 0 )
    => /\ scoreCall.raised # "none"
       /\ scoreCall.ret = EmptyDict

\* the exception the spec calls MalformedLineError is the ValueError of the
\* unpacking of line 22
MalformedLineError == "ValueError"

HasMalformedLine ==
    \E i \in 1..Len(corpus) : Occurrences(corpus[i], Delim) = {}

\* C3: the load of a corpus with a line that lacks ". " ends in the
\* exception, and at no time is an index, partial or not, bound to the module
\* global or a lookup served.
C3_MalformedCorpusAbortsLoad ==
    HasMalformedLine =>
        /\ pc # "loading" => (pc = "failed" /\ loadError = MalformedLineError)
        /\ restaurant_reviews_hash = Unbound
        /\ ~ fetchCall.called

\* the load failed on its second line, after a first line was parsed
C3_Witness ==
    /\ pc = "failed"
    /\ lineNo = 2
    /\ Occurrences(corpus[1], Delim) # {}
    /\ restaurant_reviews_hash = Unbound

StageIndex(s) ==
    CASE s = "START" -> 0
      [] s = "FETCHING" -> 1
      [] s = "ANALYZING" -> 2
      [] s = "SCORING" -> 3
      [] s = "DONE" -> 4

\* C5: the coordinator state only ever moves one step along START, FETCHING,
\* ANALYZING, SCORING, DONE; it leaves a stage only when that stage's exchange
\* has ended and exactly one result per stage so far is recorded, and every
\* exchange that is opened belongs to a new stage.
C5_StrictlyLinear ==
    [][ /\ pstate' # pstate =>
              /\ StageIndex(pstate') = StageIndex(pstate) + 1
              /\ chatOpen = "no"
              /\ Len(chat_results) = StageIndex(pstate)
        /\ (chatOpen = "no" /\ chatOpen' # "no") => pstate' # pstate
      ]_vars

C5_Witness ==
    /\ pstate = "DONE"
    /\ Len(chat_results) = 3
    /\ chat_results[1].recipient = "data_fetch_agent"
    /\ chat_results[3].recipient = "scoring_agent"

InDomain(scores) ==
    \A i \in 1..Len(scores) : scores[i] \in ScoreLow..ScoreHigh

\* C6: for non-empty lists of equal length with every element in 1..5, the
\* call returns a score between 0.000 and 10.000, and 10.000 when every pair
\* is (5, 5).
C6_ScoreWithinBounds ==
    ( /\ scoreCall.called
      /\ Len(scoreCall.food) = Len(scoreCall.service)
      /\ Len(scoreCall.food) > 0
      /\ InDomain(scoreCall.food)
      /\ InDomain(scoreCall.service) )
    => /\ scoreCall.raised = "none"
       /\ DOMAIN scoreCall.ret = {scoreCall.name}
       /\ scoreCall.ret[scoreCall.name] \in 0..(1000 * Scale)
       /\ ( \A i \in 1..Len(scoreCall.food) :
                scoreCall.food[i] = ScoreHigh /\ scoreCall.service[i] = ScoreHigh )
          => scoreCall.ret[scoreCall.name] = 1000 * Scale

\* two reviews, both (5, 5)
C6_Witness ==
    /\ scoreCall.called
    /\ scoreCall.food = <<5, 5>>
    /\ scoreCall.service = <<5, 5>>
    /\ scoreCall.ret[scoreCall.name] = 10000

IsAscii(s) == \A i \in 1..Len(s) : s[i] \in AsciiChars

Idempotent == npc = "renormalized" => keyAA = keyA

\* C7 (as claimed): normalization is idempotent, and two names that differ
\* only in letter case or in non-alphanumeric characters have the same key.
C7_NormalizeInsensitive ==
    /\ Idempotent
    /\ npc \in {"normalized", "renormalized"} => keyA = keyB

\* C7 (amended): normalization is idempotent for every name, and two names
\* of ASCII characters that differ only in letter case or in non-alphanumeric
\* characters have the same key.
C7_NormalizeInsensitiveAscii ==
    /\ Idempotent
    /\ ( /\ npc \in {"normalized", "renormalized"}
         /\ IsAscii(nameA)
         /\ IsAscii(nameB) )
       => keyA = keyB

\* two different ASCII names with a letter and a non-alphanumeric character
C7_Witness ==
    /\ npc = "renormalized"
    /\ IsAscii(nameA) /\ IsAscii(nameB)
    /\ nameA # nameB
    /\ Len(nameA) # Len(nameB)
    /\ keyA # nameA
    /\ keyA # <<>>
    /\ \E i \in 1..Len(nameB) : nameB[i] = "A"
    /\ \E i \in 1..Len(nameA) : nameA[i] = "a"

\* the text of a well-formed line before and after its first ". "
NamePart(line) == SubSeq(line, 1, Min(Occurrences(line, Delim)) - 1)
ReviewPart(line) ==
    SubSeq(line, Min(Occurrences(line, Delim)) + 2, Len(line))

\* the reviews of the first n lines whose name part normalizes to k, in order
RECURSIVE ReviewsOf(_, _)
ReviewsOf(k, n) ==
    IF n = 0 THEN <<>>
    ELSE IF normalize_restaurant_name(NamePart(corpus[n])) = k
         THEN Append(ReviewsOf(k, n - 1), ReviewPart(corpus[n]))
         ELSE ReviewsOf(k, n - 1)

\* C8: after the load of a corpus of well-formed lines the keys of the index
\* are the normalized name parts of the lines, and each key holds the review
\* parts of its lines in file order, duplicates kept.
C8_IndexHoldsReviewsInFileOrder ==
    pc = "ready" =>
        /\ DOMAIN IndexNow =
               { normalize_restaurant_name(NamePart(corpus[i])) :
                     i \in 1..Len(corpus) }
        /\ \A k \in DOMAIN IndexNow : IndexNow[k] = ReviewsOf(k, Len(corpus))

\* two lines with different names and one key, the first review with a
\* second ". " in it
C8_Witness ==
    /\ pc = "ready"
    /\ Len(corpus) = 2
    /\ NamePart(corpus[1]) # NamePart(corpus[2])
    /\ Cardinality(DOMAIN IndexNow) = 1
    /\ Occurrences(ReviewPart(corpus[1]), Delim) # {}
    /\ \E k \in DOMAIN IndexNow :
          IndexNow[k] = << ReviewPart(corpus[1]), ReviewPart(corpus[2]) >>

\* C9: no exchange uses more than 2 turns, the summary recorded for a stage
\* is the last message of its exchange whatever that message is, and every
\* run reaches DONE.
C9_ReachesDoneWithinBudget ==
    /\ [] ( /\ turn <= 2
            /\ \A i \in 1..Len(chat_results) :
                  /\ chat_results[i].turns <= 2
                  /\ chat_results[i].summary =
                         chat_results[i].chat_history[
                             Len(chat_results[i].chat_history)] )
    /\ <> (pstate = "DONE")

\* a run that ended although its second stage used up its turns and ended
\* on a message that is no handoff
C9_Witness ==
    /\ pstate = "DONE"
    /\ chat_results[2].turns = 2
    /\ chat_results[2].summary = "malformed"

\* C10: once the module is loaded no step changes the index: not a lookup,
\* hit or miss, and not a call of the scorer.
C10_IndexReadOnlyAfterLoad ==
    [][ pc = "ready" => restaurant_reviews_hash' = restaurant_reviews_hash ]_vars

\* a miss was served and the scorer was called, and the index has no key for
\* the name that missed
C10_Witness ==
    /\ pc = "ready"
    /\ fetchCall.called
    /\ fetchCall.ret[fetchCall.arg] = <<>>
    /\ normalize_restaurant_name(fetchCall.arg) \notin DOMAIN IndexNow
    /\ scoreCall.called
    /\ DOMAIN IndexNow # {}

=============================================================================
